---- MODULE Spec2Model ----
(***************************************************************************)
(* Crisis response agent: capability assembly (crisis_response/agent.py),  *)
(* the corpus preparation utility (shared_libraries/                       *)
(* prepare_crisis_corpus.py) and the deployment CLI (deployment/deploy.py).*)
(*                                                                         *)
(* External collaborators are modelled by their state: the local .env     *)
(* file, the RAG service (corpora and their files) and the agent-engine    *)
(* control plane.  Every external call of a run is appended to `calls`.    *)
(*                                                                         *)
(* The corpus utility (with the agent it feeds) and the deployment CLI     *)
(* touch disjoint keys of the .env file and disjoint services, so a        *)
(* behaviour exercises one of the two families, fixed by `utility`.        *)
(* Inputs of a run (flags, environment values) are drawn where the code    *)
(* first reads them.                                                       *)
(***************************************************************************)
EXTENDS Naturals, Integers, Sequences, FiniteSets, TLC

VARIABLES
    utility,     \* which program family this behaviour exercises
    envFile,     \* the .env file: key -> value, None when the key is absent
    corpora,     \* RAG service: sequence of corpora, in listing order
    files,       \* RAG service: corpus resource name -> sequence of files
    engines,     \* control plane: [live, deleted] sets of resource names
    root_agent,  \* the agent process assembled by agent.py
    pc,          \* position of the running program ("idle" when none runs)
    run,         \* inputs and locals of the running program
    calls        \* external calls made by the running program, in order

vars == <<utility, envFile, corpora, files, engines, root_agent, pc, run, calls>>

-----------------------------------------------------------------------------
(* Values.  Strings model Python str; None models Python None / absence.   *)

None == "None"
Empty == ""

\* Python truthiness of an optional string: `if v` / `not v`.
PyTruthy(v) == v # None /\ v # Empty

\* Bound: number of agent engines the control plane will create.
MaxEngines == 2

\* Resource names handed out by the services, in creation order.
EngineName(n) == "engine" \o ToString(n)
CorpusName(n) == "corpus" \o ToString(n)
FileName(n) == "file" \o ToString(n)

EngineIds == {EngineName(n) : n \in 1..MaxEngines}

\* load_dotenv: the value os.getenv sees for a key, given the value in the
\* process environment and the value in the .env file.
load_dotenv(proc, file, override) ==
    IF override
    THEN IF file # None THEN file ELSE proc
    ELSE IF proc # None THEN proc ELSE file

\* dotenv set_key / unset_key on the file.
set_key(f, key, value) == [f EXCEPT ![key] = value]
unset_key(f, key) == [f EXCEPT ![key] = None]

EnvKeys == {"RAG_CORPUS", "AGENT_ENGINE_ID", "AGENT_DISPLAY_NAME"}

-----------------------------------------------------------------------------
(* crisis_response/agent.py: capability assembly at process start.         *)

DEFAULT_MODEL == "gemini-2.0-flash"

\* os.getenv("MODEL_NAME", "gemini-2.0-flash")
MODEL_NAME(env) == IF env = None THEN DEFAULT_MODEL ELSE env

NoTool == [name |-> None, target |-> None]

\* Variant with a slip: the retrieval tool is given the delegate's name.
crisis_rag_retrieval_mName(RAG_CORPUS) ==
    IF PyTruthy(RAG_CORPUS)
    THEN [name |-> "GoogleSearch", target |-> RAG_CORPUS]
    ELSE NoTool

\* The retrieval tool, or NoTool (Python None) when RAG_CORPUS is falsy.
crisis_rag_retrieval(RAG_CORPUS) ==
    IF PyTruthy(RAG_CORPUS)
    THEN [name |-> "retrieve_crisis_information", target |-> RAG_CORPUS]
    ELSE NoTool

\* The search delegate agent.
search_agent(model) == [name |-> "GoogleSearch", target |-> model]

\* agent_tool.AgentTool(agent=a): the tool takes the wrapped object's name.
AgentTool(a) == [name |-> a.name, target |-> a.target]

\* Variant with a slip: the search delegate is appended first.
agent_tools_mOrder(RAG_CORPUS, model) ==
    <<AgentTool(search_agent(model))>> \o
    (IF crisis_rag_retrieval(RAG_CORPUS) # NoTool
     THEN <<AgentTool(crisis_rag_retrieval(RAG_CORPUS))>>
     ELSE <<>>)

\* The tool list handed to the root agent.
agent_tools(RAG_CORPUS, model) ==
    (IF crisis_rag_retrieval(RAG_CORPUS) # NoTool
     THEN <<AgentTool(crisis_rag_retrieval(RAG_CORPUS))>>
     ELSE <<>>)
    \o <<AgentTool(search_agent(model))>>

NotStarted ==
    [started |-> FALSE, RAG_CORPUS |-> None, model |-> None,
     name |-> None, tools |-> <<>>]

\* Values the process environment may hold for the keys agent.py reads.
ProcRagValues == {None, Empty, CorpusName(1)}
ProcModelValues == {None, "custom-model"}

\* One start of the agent process: load_dotenv() (no override), read
\* MODEL_NAME and RAG_CORPUS, build the tools and the root agent.
AgentStart ==
    /\ utility = "corpus"
    /\ \E procRag \in ProcRagValues, procModel \in ProcModelValues :
         LET rag == load_dotenv(procRag, envFile["RAG_CORPUS"], FALSE)
             model == MODEL_NAME(procModel)
         IN  root_agent' =
                 [started |-> TRUE, RAG_CORPUS |-> rag, model |-> model,
                  name |-> "crisis_response_agent",
                  tools |-> agent_tools(rag, model)]
    /\ UNCHANGED <<utility, envFile, corpora, files, engines, pc, run, calls>>

-----------------------------------------------------------------------------
(* Run bookkeeping shared by the two command-line programs.                *)

NoEnv == [k \in EnvKeys |-> None]

NoCfg == [project |-> <<None, None>>, location |-> <<None, None>>,
          bucket |-> <<None, None>>]

\* `exit` is the status the process ends with: 0 unless the program calls
\* exit(1) or dies of an uncaught exception.  It is final when pc = "done".
NoRun ==
    [program |-> "none", exit |-> 0, env0 |-> NoEnv,
     \* corpus utility
     project |-> None, location |-> None, display |-> None, procRag |-> None,
     corpus |-> None, i |-> 0, download_successful |-> FALSE,
     rag_file |-> None, successful_uploads |-> 0,
     \* deployment CLI
     flags |-> {}, cfg |-> NoCfg, config_error |-> None,
     agent_engine_id |-> None, env_id |-> None, agent_id |-> None,
     display_name |-> None, handler |-> None, writes |-> <<>>]

Call(op, arg, ok) == [op |-> op, arg |-> arg, ok |-> ok]

\* An attempt to write a key of the .env file, and whether it succeeded.
Write(key, value, ok) == [key |-> key, value |-> value, ok |-> ok]

\* The operations of `calls` that reach an external service.
Ops(log) == {log[k].op : k \in DOMAIN log}

Min(S) == CHOOSE x \in S : \A y \in S : x <= y

-----------------------------------------------------------------------------
(* shared_libraries/prepare_crisis_corpus.py                               *)

DEFAULT_CORPUS_DISPLAY_NAME == "Crisis_Response_Corpus"

\* os.getenv("RAG_CORPUS_DISPLAY_NAME", "Crisis_Response_Corpus")
CORPUS_DISPLAY_NAME(env) ==
    IF env = None THEN DEFAULT_CORPUS_DISPLAY_NAME ELSE env

EXAMPLE_DOCUMENTS ==
    << [url |-> "https://www.ready.gov/earthquake_hazard-info-sheet.pdf",
        filename |-> "earthquake_info_sheet.pdf"],
       [url |-> "https://www.who.int/coping-with-stress.pdf",
        filename |-> "who_coping_with_stress.pdf"] >>

\* Values the environment may give the keys the corpus utility reads.
ConfigValues == {None, Empty, "configured"}
ProcDisplayValues == {None, "Other_Corpus"}
CorpusProcRagValues == {None, CorpusName(1)}

\* Module level, lines 30-39: the ValueError raised for a missing setting,
\* None when both are present.
CorpusConfigError(project, location) ==
    IF ~PyTruthy(project) THEN "GOOGLE_CLOUD_PROJECT"
    ELSE IF ~PyTruthy(location) THEN "GOOGLE_CLOUD_LOCATION"
    ELSE None

\* A run of the utility starts: the module is imported (configuration is
\* read and checked), then main() is entered.
CorpusStart ==
    /\ utility = "corpus"
    /\ pc = "idle"
    /\ \E project \in ConfigValues, location \in ConfigValues,
          display \in ProcDisplayValues, procRag \in CorpusProcRagValues :
         LET r == [NoRun EXCEPT !.program = "corpus", !.env0 = envFile,
                                !.project = project, !.location = location]
         IN  IF CorpusConfigError(project, location) # None
             THEN /\ run' = [r EXCEPT !.exit = 1]
                  /\ pc' = "done"
             ELSE /\ run' = [r EXCEPT !.display = CORPUS_DISPLAY_NAME(display),
                                      !.procRag = procRag]
                  /\ pc' = "c_init"
    /\ calls' = <<>>
    /\ UNCHANGED <<utility, envFile, corpora, files, engines, root_agent>>

\* initialize_vertex_ai(): credentials and vertexai.init.
initialize_vertex_ai ==
    /\ pc = "c_init"
    /\ calls' = Append(calls, Call("vertexai.init", run.project, TRUE))
    /\ pc' = "c_corpus"
    /\ UNCHANGED <<utility, envFile, corpora, files, engines, root_agent, run>>

\* Variant with a slip: the display-name comparison never matches.
FindCorpus_mNever(cs, display) == None

\* The loop of create_or_get_corpus: the resource name of the first listed
\* corpus whose display name matches, None when there is none.
FindCorpus(cs, display) ==
    LET hits == {k \in DOMAIN cs : cs[k].display_name = display}
    IN  IF hits = {} THEN None ELSE cs[Min(hits)].name

\* create_or_get_corpus(): list, reuse a match, otherwise create.  A service
\* error is not caught: it ends the run.
create_or_get_corpus ==
    /\ pc = "c_corpus"
    /\ \E listOk \in BOOLEAN, createOk \in BOOLEAN :
         LET listed == Append(calls, Call("rag.list_corpora", None, listOk))
             found == FindCorpus(corpora, run.display)
             fresh == CorpusName(Len(corpora) + 1)
         IN  IF ~listOk
             THEN /\ calls' = listed
                  /\ run' = [run EXCEPT !.exit = 1]
                  /\ pc' = "done"
                  /\ UNCHANGED <<corpora, files>>
             ELSE IF found # None
             THEN /\ calls' = listed
                  /\ run' = [run EXCEPT !.corpus = found]
                  /\ pc' = "c_env"
                  /\ UNCHANGED <<corpora, files>>
             ELSE IF createOk
             THEN /\ calls' = Append(listed, Call("rag.create_corpus", fresh, TRUE))
                  /\ corpora' = Append(corpora,
                         [name |-> fresh, display_name |-> run.display])
                  /\ files' = (fresh :> <<>>) @@ files
                  /\ run' = [run EXCEPT !.corpus = fresh]
                  /\ pc' = "c_env"
             ELSE /\ calls' = Append(listed, Call("rag.create_corpus", None, FALSE))
                  /\ run' = [run EXCEPT !.exit = 1]
                  /\ pc' = "done"
                  /\ UNCHANGED <<corpora, files>>
    /\ UNCHANGED <<utility, envFile, engines, root_agent>>

\* Variant with a slip: publishing the corpus also rebuilds the tool list of
\* an agent process that is already running.
update_env_file_mReload ==
    /\ pc = "c_env"
    /\ \E writeOk \in BOOLEAN :
         LET current_value == load_dotenv(run.procRag, envFile["RAG_CORPUS"], TRUE)
         IN  IF current_value # run.corpus
             THEN /\ envFile' = IF writeOk
                                THEN set_key(envFile, "RAG_CORPUS", run.corpus)
                                ELSE envFile
                  /\ run' = [run EXCEPT !.i = 1, !.writes =
                         << Write("RAG_CORPUS", run.corpus, writeOk) >>]
             ELSE /\ envFile' = envFile
                  /\ run' = [run EXCEPT !.i = 1]
    /\ pc' = "c_download"
    /\ root_agent' =
         IF root_agent.started
         THEN [root_agent EXCEPT
                  !.RAG_CORPUS = envFile'["RAG_CORPUS"],
                  !.tools = agent_tools(envFile'["RAG_CORPUS"], root_agent.model)]
         ELSE root_agent
    /\ UNCHANGED <<utility, corpora, files, engines, calls>>

\* update_env_file(corpus.name, ENV_FILE_PATH): reload the file over the
\* process environment, write only when the value seen differs.  An error
\* of set_key is caught and printed.
update_env_file ==
    /\ pc = "c_env"
    /\ \E writeOk \in BOOLEAN :
         LET current_value == load_dotenv(run.procRag, envFile["RAG_CORPUS"], TRUE)
         IN  IF current_value # run.corpus
             THEN /\ envFile' = IF writeOk
                                THEN set_key(envFile, "RAG_CORPUS", run.corpus)
                                ELSE envFile
                  /\ run' = [run EXCEPT !.i = 1, !.writes =
                         << Write("RAG_CORPUS", run.corpus, writeOk) >>]
             ELSE /\ envFile' = envFile
                  /\ run' = [run EXCEPT !.i = 1]
    /\ pc' = "c_download"
    /\ UNCHANGED <<utility, corpora, files, engines, root_agent, calls>>

\* After document i: the next document, or the final listing.
\* Variant with a slip: the loop does not move on from the document.
NextDoc_mRetry(r) == [r EXCEPT !.download_successful = FALSE]

NextDoc(r) ==
    IF r.i < Len(EXAMPLE_DOCUMENTS)
    THEN [r EXCEPT !.i = r.i + 1, !.download_successful = FALSE]
    ELSE [r EXCEPT !.download_successful = FALSE]

NextDocPc(r) == IF r.i < Len(EXAMPLE_DOCUMENTS) THEN "c_download" ELSE "c_list"

\* main(), lines 186-204 and 215-220: download document i; a failed
\* download skips the document.
download_pdf_from_url ==
    /\ pc = "c_download"
    /\ \E ok \in BOOLEAN :
         LET doc == EXAMPLE_DOCUMENTS[run.i]
         IN  IF ~PyTruthy(doc.url)
             THEN /\ calls' = calls
                  /\ run' = NextDoc(run)
                  /\ pc' = NextDocPc(run)
             ELSE /\ calls' = Append(calls, Call("requests.get", doc.filename, ok))
                  /\ IF ok
                     THEN /\ run' = [run EXCEPT !.download_successful = TRUE]
                          /\ pc' = "c_upload"
                     ELSE /\ run' = NextDoc(run)
                          /\ pc' = NextDocPc(run)
    /\ UNCHANGED <<utility, envFile, corpora, files, engines, root_agent>>

\* Variant with a slip: the display-name comparison never matches.
FindFile_mNever(fs, display_name) == None

\* The loop of upload_pdf_to_corpus: the first listed file with the display
\* name, None when there is none.
FindFile(fs, display_name) ==
    LET hits == {k \in DOMAIN fs : fs[k].display_name = display_name}
    IN  IF hits = {} THEN None ELSE fs[Min(hits)].name

\* upload_pdf_to_corpus(): list the corpus files, skip when the display name
\* is present, otherwise upload.  Any error is caught and yields None.
upload_pdf_to_corpus ==
    /\ pc = "c_upload"
    /\ \E listOk \in BOOLEAN, uploadOk \in BOOLEAN :
         LET doc == EXAMPLE_DOCUMENTS[run.i]
             fs == files[run.corpus]
             listed == Append(calls, Call("rag.list_files", doc.filename, listOk))
             existing == FindFile(fs, doc.filename)
             fresh == run.corpus \o "/" \o FileName(Len(fs) + 1)
             done(r, rag_file) ==
                 NextDoc([r EXCEPT !.rag_file = rag_file,
                                   !.successful_uploads =
                                       IF rag_file # None THEN @ + 1 ELSE @])
         IN  IF ~listOk
             THEN /\ calls' = listed
                  /\ run' = done(run, None)
                  /\ files' = files
             ELSE IF existing # None
             THEN /\ calls' = listed
                  /\ run' = done(run, existing)
                  /\ files' = files
             ELSE IF uploadOk
             THEN /\ calls' = Append(listed, Call("rag.upload_file", doc.filename, TRUE))
                  /\ files' = [files EXCEPT ![run.corpus] =
                         Append(@, [name |-> fresh, display_name |-> doc.filename])]
                  /\ run' = done(run, fresh)
             ELSE /\ calls' = Append(listed, Call("rag.upload_file", doc.filename, FALSE))
                  /\ run' = done(run, None)
                  /\ files' = files
    /\ pc' = NextDocPc(run)
    /\ UNCHANGED <<utility, envFile, corpora, engines, root_agent>>

\* list_corpus_files(corpus.name): the final listing; main() then returns.
list_corpus_files ==
    /\ pc = "c_list"
    /\ \E ok \in BOOLEAN :
         /\ calls' = Append(calls, Call("rag.list_files", None, ok))
         /\ run' = [run EXCEPT !.exit = IF ok THEN @ ELSE 1]
    /\ pc' = "done"
    /\ UNCHANGED <<utility, envFile, corpora, files, engines, root_agent>>

\* The process of a finished run ends.
ProcessExit ==
    /\ pc = "done"
    /\ pc' = "idle"
    /\ run' = NoRun
    /\ calls' = <<>>
    /\ UNCHANGED <<utility, envFile, corpora, files, engines, root_agent>>

-----------------------------------------------------------------------------
(* deployment/deploy.py                                                    *)

ActionFlags == {"list", "create", "delete", "update"}

DEFAULT_DISPLAY_NAME == "Crisis Response Agent"

\* Values of the command line and of the environment the CLI may be given.
\* A configuration input is a pair <<flag value, environment value>>.
ConfigInputs ==
    { <<None, None>>, <<None, "configured">>, <<"configured", None>>,
      <<Empty, "configured">> }
AgentIdFlagValues == {None, Empty} \cup EngineIds
ProcAgentIdValues == {None, Empty, EngineName(1)}
DisplayNameValues == {DEFAULT_DISPLAY_NAME, "Renamed Agent"}

\* Variant with a slip: the validator is not registered.
mutual_exclusive_mOff(flagset) == TRUE

\* flags.mark_bool_flags_as_mutual_exclusive([...]) with required=False:
\* the validator accepts a command line with at most one of the flags set.
mark_bool_flags_as_mutual_exclusive(flagset) == Cardinality(flagset) <= 1

\* The program starts: absl parses the flags and runs the validators; a
\* rejected command line prints the usage and exits with status 1 before
\* main() is called.  load_dotenv(override=True) fixes os.environ.
DeployStart ==
    /\ utility = "deploy"
    /\ pc = "idle"
    /\ \E flagset \in SUBSET ActionFlags :
         LET r == [NoRun EXCEPT !.program = "deploy", !.env0 = envFile,
                                !.flags = flagset]
         IN  IF mark_bool_flags_as_mutual_exclusive(flagset)
             THEN /\ run' = r
                  /\ pc' = "d_main"
             ELSE /\ run' = [r EXCEPT !.exit = 1]
                  /\ pc' = "done"
    /\ calls' = <<>>
    /\ UNCHANGED <<utility, envFile, corpora, files, engines, root_agent>>

\* Variant with a slip: a missing value is passed on instead of raising.
get_config_value_mNoRaise(flag_value, env_value) ==
    IF flag_value # None THEN flag_value
    ELSE IF env_value # None THEN env_value ELSE "unset"

\* _get_config_value: the flag when it is given, otherwise the environment;
\* None stands for the ValueError raised when the value is falsy.
_get_config_value(flag_value, env_value) ==
    LET value == IF flag_value # None THEN flag_value ELSE env_value
    IN  IF ~PyTruthy(value) THEN None ELSE value

\* main(), lines 232-250: the first setting that raises, None when all three
\* resolve.
DeployConfigError(cfg) ==
    IF _get_config_value(cfg.project[1], cfg.project[2]) = None
    THEN "GOOGLE_CLOUD_PROJECT"
    ELSE IF _get_config_value(cfg.location[1], cfg.location[2]) = None
    THEN "GOOGLE_CLOUD_LOCATION"
    ELSE IF _get_config_value(cfg.bucket[1], cfg.bucket[2]) = None
    THEN "STAGING_BUCKET_NAME"
    ELSE None

\* main(), lines 232-256: resolve project, location and staging bucket.
DeployConfig ==
    /\ pc = "d_main"
    /\ \E p \in ConfigInputs, l \in ConfigInputs, b \in ConfigInputs :
         LET cfg == [project |-> p, location |-> l, bucket |-> b]
             err == DeployConfigError(cfg)
         IN  IF err # None
             THEN /\ run' = [run EXCEPT !.cfg = cfg, !.config_error = err,
                                        !.exit = 1]
                  /\ pc' = "done"
             ELSE /\ run' = [run EXCEPT !.cfg = cfg]
                  /\ pc' = "d_init"
    /\ UNCHANGED <<utility, envFile, corpora, files, engines, root_agent, calls>>

\* main(), lines 258-262: vertexai.init(project, location, staging_bucket).
DeployInit ==
    /\ pc = "d_init"
    /\ calls' = Append(calls, Call("vertexai.init",
           _get_config_value(run.cfg.project[1], run.cfg.project[2]), TRUE))
    /\ pc' = "d_dispatch"
    /\ UNCHANGED <<utility, envFile, corpora, files, engines, root_agent, run>>

\* main(), line 264.
agent_id_from_flag_or_env(flag, env) == IF PyTruthy(flag) THEN flag ELSE env

\* Variant with a slip: `is None` in place of `not`.
MissingAgentId_mNoneOnly(id) == id = None

\* `if not agent_id_from_flag_or_env` (main) and
\* `if not agent_engine_resource_id` (delete_agent, update_agent).
MissingAgentId(id) == ~PyTruthy(id)

\* Variant with a slip: a run with no action flag falls through to the listing.
SelectedAction_mDefaultList(flagset) ==
    IF "create" \in flagset THEN "create"
    ELSE IF "delete" \in flagset THEN "delete"
    ELSE IF "update" \in flagset THEN "update"
    ELSE "list"

\* The if/elif chain of main(), lines 266-284.
SelectedAction(flagset) ==
    IF "list" \in flagset THEN "list"
    ELSE IF "create" \in flagset THEN "create"
    ELSE IF "delete" \in flagset THEN "delete"
    ELSE IF "update" \in flagset THEN "update"
    ELSE "none"

\* main(), lines 264-284: resolve the agent identifier and dispatch.
DeployDispatch ==
    /\ pc = "d_dispatch"
    /\ \E flag \in AgentIdFlagValues, proc \in ProcAgentIdValues :
         LET env == load_dotenv(proc, envFile["AGENT_ENGINE_ID"], TRUE)
             id == agent_id_from_flag_or_env(flag, env)
             r == [run EXCEPT !.agent_engine_id = flag, !.env_id = env,
                              !.agent_id = id]
             action == SelectedAction(run.flags)
         IN  CASE action = "list" ->
                    /\ run' = run
                    /\ pc' = "d_list"
               [] action = "create" ->
                    /\ run' = run
                    /\ pc' = "d_create"
               [] action \in {"delete", "update"} ->
                    IF MissingAgentId(id)
                    THEN /\ run' = [r EXCEPT !.exit = 1]
                         /\ pc' = "done"
                    ELSE /\ run' = r
                         /\ pc' = IF action = "delete" THEN "d_delete"
                                                       ELSE "d_update"
               [] OTHER ->
                    /\ run' = run
                    /\ pc' = "done"
    /\ UNCHANGED <<utility, envFile, corpora, files, engines, root_agent, calls>>

\* Variant with a slip: the unset branch is missing.
update_env_file_mKeep(f, key, value, ok) ==
    IF ~ok \/ value = None THEN f ELSE set_key(f, key, value)

\* _update_env_file(key, value): set the key, or remove it when value is
\* None.  An error of the write (ok = FALSE) is caught and logged; the file
\* is then left as it was.
_update_env_file(f, key, value, ok) ==
    IF ~ok THEN f
    ELSE IF value # None THEN set_key(f, key, value)
    ELSE unset_key(f, key)

AllEngines == engines.live \cup engines.deleted

\* Variant with a slip: the display name is recorded although the create call
\* failed.
create_agent_mWriteFirst ==
    /\ pc = "d_create"
    /\ \E display \in DisplayNameValues, ok \in BOOLEAN,
          w1 \in BOOLEAN, w2 \in BOOLEAN :
         LET fresh == EngineName(Cardinality(AllEngines) + 1)
             r == [run EXCEPT !.display_name = display, !.handler = "create_agent"]
         IN  IF ok /\ Cardinality(AllEngines) < MaxEngines
             THEN /\ calls' = Append(calls, Call("agent_engines.create", fresh, TRUE))
                  /\ engines' = [engines EXCEPT !.live = @ \cup {fresh}]
                  /\ envFile' = _update_env_file(
                         _update_env_file(envFile, "AGENT_ENGINE_ID", fresh, w1),
                         "AGENT_DISPLAY_NAME", display, w2)
                  /\ run' = [r EXCEPT !.writes =
                         << Write("AGENT_ENGINE_ID", fresh, w1),
                            Write("AGENT_DISPLAY_NAME", display, w2) >>]
             ELSE /\ calls' = Append(calls, Call("agent_engines.create", None, FALSE))
                  /\ run' = [r EXCEPT !.exit = 1]
                  /\ engines' = engines
                  /\ envFile' = _update_env_file(envFile, "AGENT_DISPLAY_NAME",
                                                 display, w2)
    /\ pc' = "done"
    /\ UNCHANGED <<utility, corpora, files, root_agent>>

\* create_agent(): agent_engines.create, then persist the resource name and
\* the display name.  A failure of the call exits with status 1.
create_agent ==
    /\ pc = "d_create"
    /\ \E display \in DisplayNameValues, ok \in BOOLEAN,
          w1 \in BOOLEAN, w2 \in BOOLEAN :
         LET fresh == EngineName(Cardinality(AllEngines) + 1)
             r == [run EXCEPT !.display_name = display, !.handler = "create_agent"]
         IN  IF ok /\ Cardinality(AllEngines) < MaxEngines
             THEN /\ calls' = Append(calls, Call("agent_engines.create", fresh, TRUE))
                  /\ engines' = [engines EXCEPT !.live = @ \cup {fresh}]
                  /\ envFile' = _update_env_file(
                         _update_env_file(envFile, "AGENT_ENGINE_ID", fresh, w1),
                         "AGENT_DISPLAY_NAME", display, w2)
                  /\ run' = [r EXCEPT !.writes =
                         << Write("AGENT_ENGINE_ID", fresh, w1),
                            Write("AGENT_DISPLAY_NAME", display, w2) >>]
             ELSE /\ calls' = Append(calls, Call("agent_engines.create", None, FALSE))
                  /\ run' = [r EXCEPT !.exit = 1]
                  /\ UNCHANGED <<engines, envFile>>
    /\ pc' = "done"
    /\ UNCHANGED <<utility, corpora, files, root_agent>>

\* Variant with a slip: a delete never clears the .env entries.
ClearsEnv_mNever(id, env_id) == FALSE

\* delete_agent(), line 159: the .env entries are cleared only when the
\* deleted agent is the one the environment names.
ClearsEnv(id, env_id) == id = env_id

\* delete_agent(): get the engine and delete it, then clear the .env
\* entries.  A failure of either call exits with status 1.
delete_agent ==
    /\ pc = "d_delete"
    /\ \E getOk \in BOOLEAN, delOk \in BOOLEAN, w1 \in BOOLEAN, w2 \in BOOLEAN :
         LET id == run.agent_id
             r == [run EXCEPT !.handler = "delete_agent"]
             got == Append(calls, Call("agent_engines.get", id, TRUE))
         IN  IF MissingAgentId(id)
             THEN /\ calls' = calls
                  /\ run' = [r EXCEPT !.exit = 1]
                  /\ UNCHANGED <<engines, envFile>>
             ELSE IF ~(getOk /\ id \in engines.live)
             THEN /\ calls' = Append(calls, Call("agent_engines.get", id, FALSE))
                  /\ run' = [r EXCEPT !.exit = 1]
                  /\ UNCHANGED <<engines, envFile>>
             ELSE IF ~delOk
             THEN /\ calls' = Append(got, Call("remote_agent.delete", id, FALSE))
                  /\ run' = [r EXCEPT !.exit = 1]
                  /\ UNCHANGED <<engines, envFile>>
             ELSE /\ calls' = Append(got, Call("remote_agent.delete", id, TRUE))
                  /\ engines' = [live |-> engines.live \ {id},
                                 deleted |-> engines.deleted \cup {id}]
                  /\ IF ClearsEnv(id, run.env_id)
                     THEN /\ envFile' = _update_env_file(
                                 _update_env_file(envFile, "AGENT_ENGINE_ID", None, w1),
                                 "AGENT_DISPLAY_NAME", None, w2)
                          /\ run' = [r EXCEPT !.writes =
                                 << Write("AGENT_ENGINE_ID", None, w1),
                                    Write("AGENT_DISPLAY_NAME", None, w2) >>]
                     ELSE /\ envFile' = envFile
                          /\ run' = r
    /\ pc' = "done"
    /\ UNCHANGED <<utility, corpora, files, root_agent>>

\* Variant with a slip: the error is logged and the exit(1) forgotten.
ListExit_mSwallow(status, ok) == status

\* list_all_agents(), lines 190-192: `except Exception: ...; exit(1)`.  The
\* status the process will end with, after a call that succeeded or failed.
ListExit(status, ok) == IF ok THEN status ELSE 1

\* list_all_agents(): agent_engines.list and print; a failure exits with
\* status 1.
list_all_agents ==
    /\ pc = "d_list"
    /\ \E ok \in BOOLEAN :
         /\ calls' = Append(calls, Call("agent_engines.list", None, ok))
         /\ run' = [run EXCEPT !.handler = "list_all_agents",
                               !.exit = ListExit(@, ok)]
    /\ pc' = "done"
    /\ UNCHANGED <<utility, envFile, corpora, files, engines, root_agent>>

\* Variant with a slip: the `or not os.getenv(...)` clause is dropped.
PersistsUpdate_mSameOnly(id, env_id) == id = env_id

\* update_agent(), line 220: the .env entries are written when the updated
\* agent is the one the environment names, or the environment names none.
PersistsUpdate(id, env_id) == id = env_id \/ ~PyTruthy(env_id)

\* update_agent(): agent_engines.update, then persist the resource name and
\* the display name.  A failure of the call exits with status 1.
update_agent ==
    /\ pc = "d_update"
    /\ \E display \in DisplayNameValues, ok \in BOOLEAN,
          w1 \in BOOLEAN, w2 \in BOOLEAN :
         LET id == run.agent_id
             r == [run EXCEPT !.display_name = display, !.handler = "update_agent"]
         IN  IF MissingAgentId(id)
             THEN /\ calls' = calls
                  /\ run' = [r EXCEPT !.exit = 1]
                  /\ envFile' = envFile
             ELSE IF ~(ok /\ id \in engines.live)
             THEN /\ calls' = Append(calls, Call("agent_engines.update", id, FALSE))
                  /\ run' = [r EXCEPT !.exit = 1]
                  /\ envFile' = envFile
             ELSE /\ calls' = Append(calls, Call("agent_engines.update", id, TRUE))
                  /\ IF PersistsUpdate(id, run.env_id)
                     THEN /\ envFile' = _update_env_file(
                                 _update_env_file(envFile, "AGENT_ENGINE_ID", id, w1),
                                 "AGENT_DISPLAY_NAME", display, w2)
                          /\ run' = [r EXCEPT !.writes =
                                 << Write("AGENT_ENGINE_ID", id, w1),
                                    Write("AGENT_DISPLAY_NAME", display, w2) >>]
                     ELSE /\ envFile' = envFile
                          /\ run' = r
    /\ pc' = "done"
    /\ UNCHANGED <<utility, corpora, files, engines, root_agent>>

-----------------------------------------------------------------------------
(* The system: the agent process and the corpus utility share the .env     *)
(* file and the RAG service; the deployment CLI works on the .env file and *)
(* the control plane.  Runs of the command-line programs are sequential.   *)

Init ==
    /\ utility \in {"corpus", "deploy"}
    /\ envFile = NoEnv
    /\ corpora = <<>>
    /\ files = <<>>
    /\ engines = [live |-> {}, deleted |-> {}]
    /\ root_agent = NotStarted
    /\ pc = "idle"
    /\ run = NoRun
    /\ calls = <<>>

Next ==
    \/ AgentStart
    \/ CorpusStart
    \/ initialize_vertex_ai
    \/ create_or_get_corpus
    \/ update_env_file
    \/ download_pdf_from_url
    \/ upload_pdf_to_corpus
    \/ list_corpus_files
    \/ DeployStart
    \/ DeployConfig
    \/ DeployInit
    \/ DeployDispatch
    \/ list_all_agents
    \/ create_agent
    \/ delete_agent
    \/ update_agent
    \/ ProcessExit

Spec == Init /\ [][Next]_vars

-----------------------------------------------------------------------------
(* Properties of capability assembly (agent.py).                           *)

ToolNames(tools) == [k \in DOMAIN tools |-> tools[k].name]

\* C1 as stated: a started agent has exactly one tool, the search delegate,
\* when RAG_CORPUS is unset, and exactly two, retrieval first and the search
\* delegate second, when RAG_CORPUS is set (present in the environment).
C1_AsStated ==
    root_agent.started =>
        IF root_agent.RAG_CORPUS = None
        THEN ToolNames(root_agent.tools) = <<"GoogleSearch">>
        ELSE ToolNames(root_agent.tools) =
                 <<"retrieve_crisis_information", "GoogleSearch">>

\* C1 (amended): a started agent has exactly one tool, the search delegate
\* (named as the delegate agent is, GoogleSearch), when RAG_CORPUS is unset
\* or empty, and exactly two, retrieve_crisis_information first and the
\* search delegate second, when RAG_CORPUS is set to a non-empty value.
C1_Assembly ==
    root_agent.started =>
        /\ root_agent.RAG_CORPUS \in {None, Empty} =>
               /\ Len(root_agent.tools) = 1
               /\ root_agent.tools[1].name = "GoogleSearch"
        /\ root_agent.RAG_CORPUS \notin {None, Empty} =>
               /\ Len(root_agent.tools) = 2
               /\ root_agent.tools[1].name = "retrieve_crisis_information"
               /\ root_agent.tools[1].target = root_agent.RAG_CORPUS
               /\ root_agent.tools[2].name = "GoogleSearch"

\* Witness of C1: an agent started on a RAG_CORPUS the corpus utility wrote
\* to the .env file carries the two tools.
C1_Witness ==
    /\ root_agent.started
    /\ envFile["RAG_CORPUS"] # None
    /\ root_agent.RAG_CORPUS = envFile["RAG_CORPUS"]
    /\ Len(root_agent.tools) = 2

\* C2: whatever the environment (RAG_CORPUS present or absent, any
\* MODEL_NAME), no two entries of the root agent's tool list have the same
\* name.
C2_UniqueNames ==
    \A j \in DOMAIN root_agent.tools, k \in DOMAIN root_agent.tools :
        j # k => root_agent.tools[j].name # root_agent.tools[k].name

\* Witness of C2: a two-tool agent started with a MODEL_NAME of its own.
C2_Witness ==
    /\ root_agent.started
    /\ root_agent.model # DEFAULT_MODEL
    /\ Len(root_agent.tools) = 2

-----------------------------------------------------------------------------
(* Properties of the corpus utility: idempotent resolution.                *)

\* The listed corpora with a display name; the files of a corpus with one.
Matching(d) == {k \in DOMAIN corpora : corpora[k].display_name = d}
FilesNamed(c, d) == {k \in DOMAIN files[c] : files[c][k].display_name = d}

DisplayNamesInUse == {corpora[k].display_name : k \in DOMAIN corpora}

\* State part of C3: no display name has two corpora, and a corpus the run
\* got from create_or_get_corpus is the one with the configured name.
C3_OnePerName ==
    /\ \A d \in DisplayNamesInUse : Cardinality(Matching(d)) = 1
    /\ (run.program = "corpus" /\ run.corpus # None) =>
           \E k \in Matching(run.display) : corpora[k].name = run.corpus

\* Step part of C3: with a matching corpus in the service the call creates
\* nothing, issues no create_corpus call, and returns the match; and no
\* step ever changes or removes a listed corpus.
C3_Step ==
    /\ (pc = "c_corpus" /\ Matching(run.display) # {}) =>
           /\ corpora' = corpora
           /\ "rag.create_corpus" \notin Ops(calls')
           /\ pc' = "c_env" =>
                  \E k \in Matching(run.display) : run'.corpus = corpora[k].name
    /\ \A k \in DOMAIN corpora :
           k \in DOMAIN corpora' /\ corpora'[k] = corpora[k]

\* C3: create_or_get_corpus is idempotent: when the service holds a corpus
\* with the configured display name the call returns it and issues no
\* create_corpus call; so, over sequential runs from a service without a
\* match, each display name has exactly one corpus once created, and every
\* later run returns the identity the first one created.
C3_Idempotent == []C3_OnePerName /\ [][C3_Step]_vars

\* Witness of C3: a run got its corpus without a create_corpus call.
C3_Witness ==
    /\ pc = "c_env"
    /\ run.corpus # None
    /\ "rag.create_corpus" \notin Ops(calls)

\* State part of C4: no corpus holds two files with one display name.
C4_NoDuplicateFiles ==
    \A c \in DOMAIN files : \A j \in DOMAIN files[c], k \in DOMAIN files[c] :
        j # k => files[c][j].display_name # files[c][k].display_name

\* Step part of C4: when the corpus holds a file with the document's display
\* name, the call uploads nothing (its only call is the listing) and, the
\* listing answering, returns that file; it counts as a successful upload.
\* (pc changes exactly when the step is the call.)
C4_Step ==
    (pc = "c_upload" /\ pc' # pc /\
     FilesNamed(run.corpus, EXAMPLE_DOCUMENTS[run.i].filename) # {}) =>
        /\ files' = files
        /\ Len(calls') = Len(calls) + 1
        /\ calls'[Len(calls')].op = "rag.list_files"
        /\ calls'[Len(calls')].ok =>
               /\ \E k \in FilesNamed(run.corpus, EXAMPLE_DOCUMENTS[run.i].filename) :
                      run'.rag_file = files[run.corpus][k].name
               /\ run'.successful_uploads = run.successful_uploads + 1

\* C4: upload_pdf_to_corpus is idempotent per display name: with a file of
\* that display name in the corpus it issues no upload_file call and returns
\* the existing file; so, over sequential runs on corpora that started
\* without duplicates, no corpus ever holds two files with one display name.
C4_Idempotent == []C4_NoDuplicateFiles /\ [][C4_Step]_vars

\* Witness of C4: a document was skipped: the run holds a file handle for
\* it although it has made no upload_file call.
C4_Witness ==
    /\ run.program = "corpus"
    /\ run.rag_file # None
    /\ "rag.upload_file" \notin Ops(calls)

-----------------------------------------------------------------------------
(* Properties of the deployment CLI.                                       *)

ControlPlaneOps ==
    {"agent_engines.create", "agent_engines.get", "remote_agent.delete",
     "agent_engines.update", "agent_engines.list"}

DeployDone == run.program = "deploy" /\ pc = "done"

\* C5: a run with two or more of --create, --delete, --list, --update set
\* fails validation: it ends with a non-zero status, having made no external
\* call, entered no action handler and left the .env file alone.
C5_FlagConflict ==
    (run.program = "deploy" /\ Cardinality(run.flags) >= 2) =>
        /\ pc = "done"
        /\ run.exit # 0
        /\ calls = <<>>
        /\ run.handler = None
        /\ envFile = run.env0

\* Witness of C5: a finished run that was given --create and --delete.
C5_Witness ==
    /\ DeployDone
    /\ run.flags = {"create", "delete"}

\* Neither --agent_engine_id nor AGENT_ENGINE_ID of the environment gives a
\* non-empty identifier.
NoAgentId == ~PyTruthy(run.agent_engine_id) /\ ~PyTruthy(run.env_id)

\* C6: a --delete run (and likewise an --update run) for which no agent
\* identifier can be resolved never calls agent_engines.get, delete or
\* update, enters no handler, leaves the .env file unchanged, and ends with
\* a non-zero status.
C6_NoAgentId ==
    (run.program = "deploy" /\ run.flags \in {{"delete"}, {"update"}}
         /\ NoAgentId) =>
        /\ Ops(calls) \cap ControlPlaneOps = {}
        /\ run.handler = None
        /\ envFile = run.env0
        /\ pc = "done" => run.exit # 0

\* Witness of C6: a --delete run that passed configuration and Vertex AI
\* initialisation and ended at the identifier guard.
C6_Witness ==
    /\ DeployDone
    /\ run.flags = {"delete"}
    /\ NoAgentId
    /\ Ops(calls) = {"vertexai.init"}
    /\ run.exit = 1

\* A required setting is missing: neither its flag nor, the flag not being
\* given, the environment supplies a non-empty value.
SettingMissing(pair) ==
    (IF pair[1] # None THEN pair[1] ELSE pair[2]) \in {None, Empty}

ValidationFailed ==
    \/ Cardinality(run.flags) >= 2
    \/ SettingMissing(run.cfg.project)
    \/ SettingMissing(run.cfg.location)
    \/ SettingMissing(run.cfg.bucket)
    \/ (run.flags \in {{"delete"}, {"update"}} /\ NoAgentId)

ControlPlaneFailed ==
    \E k \in DOMAIN calls : calls[k].op \in ControlPlaneOps /\ ~calls[k].ok

SuccessfulRunOf(handlers) ==
    DeployDone /\ run.exit = 0 /\ run.handler \in handlers

\* The resource name the control plane returned to a create or update.
ReturnedName == calls[Len(calls)].arg

\* C8 as stated: after every successful --create or --update run the .env
\* file holds AGENT_ENGINE_ID = the returned resource name and
\* AGENT_DISPLAY_NAME = the display name used.
C8_AsStated ==
    SuccessfulRunOf({"create_agent", "update_agent"}) =>
        /\ envFile["AGENT_ENGINE_ID"] = ReturnedName
        /\ envFile["AGENT_DISPLAY_NAME"] = run.display_name

\* An --update whose agent is the one the environment names, or whose
\* environment names none.
UpdatesTrackedAgent ==
    run.agent_id = run.env_id \/ run.env_id \in {None, Empty}

\* C8 (amended): after a successful --create run, and after a successful
\* --update run of the agent the environment names (or with no agent named
\* in the environment), the CLI has written both keys, and each key whose
\* write did not fail holds its value (AGENT_ENGINE_ID the returned resource
\* name, AGENT_DISPLAY_NAME the display name used) while a key whose write
\* failed keeps its old value; a successful --update of any other agent
\* leaves the .env file unchanged.
C8_Persisted ==
    SuccessfulRunOf({"create_agent", "update_agent"}) =>
        IF run.handler = "create_agent" \/ UpdatesTrackedAgent
        THEN /\ Len(run.writes) = 2
             /\ envFile["AGENT_ENGINE_ID"] =
                    IF run.writes[1].ok THEN ReturnedName
                    ELSE run.env0["AGENT_ENGINE_ID"]
             /\ envFile["AGENT_DISPLAY_NAME"] =
                    IF run.writes[2].ok THEN run.display_name
                    ELSE run.env0["AGENT_DISPLAY_NAME"]
             /\ envFile["RAG_CORPUS"] = run.env0["RAG_CORPUS"]
        ELSE envFile = run.env0

\* Witness of C8: a successful --update by flag, with no agent named in the
\* environment, whose two writes succeeded.
C8_Witness ==
    /\ SuccessfulRunOf({"update_agent"})
    /\ run.env_id = None
    /\ run.agent_engine_id = run.agent_id
    /\ Len(run.writes) = 2
    /\ run.writes[1].ok /\ run.writes[2].ok
    /\ envFile["AGENT_ENGINE_ID"] = run.agent_id

\* C9 as stated: after every successful --delete run the .env file holds
\* neither AGENT_ENGINE_ID nor AGENT_DISPLAY_NAME.
C9_AsStated ==
    SuccessfulRunOf({"delete_agent"}) =>
        /\ envFile["AGENT_ENGINE_ID"] = None
        /\ envFile["AGENT_DISPLAY_NAME"] = None

\* C9 (amended): after a successful --delete run of the agent the
\* environment names (as is every delete whose identifier comes from the
\* environment), the CLI has removed both keys, and each key whose write did
\* not fail is absent from the .env file while a key whose write failed
\* keeps its old value; a successful --delete of any other agent leaves the
\* .env file unchanged.
C9_Cleared ==
    SuccessfulRunOf({"delete_agent"}) =>
        IF run.agent_id = run.env_id
        THEN /\ Len(run.writes) = 2
             /\ envFile["AGENT_ENGINE_ID"] =
                    IF run.writes[1].ok THEN None
                    ELSE run.env0["AGENT_ENGINE_ID"]
             /\ envFile["AGENT_DISPLAY_NAME"] =
                    IF run.writes[2].ok THEN None
                    ELSE run.env0["AGENT_DISPLAY_NAME"]
             /\ envFile["RAG_CORPUS"] = run.env0["RAG_CORPUS"]
        ELSE envFile = run.env0

\* Witness of C9: a successful --delete of the agent the .env file named,
\* after which both keys are gone.
C9_Witness ==
    /\ SuccessfulRunOf({"delete_agent"})
    /\ run.env0["AGENT_ENGINE_ID"] = run.agent_id
    /\ run.env0["AGENT_DISPLAY_NAME"] # None
    /\ envFile["AGENT_ENGINE_ID"] = None
    /\ envFile["AGENT_DISPLAY_NAME"] = None

-----------------------------------------------------------------------------
(* Missing required configuration.                                         *)

\* The corpus utility runs without GOOGLE_CLOUD_PROJECT or
\* GOOGLE_CLOUD_LOCATION.
CorpusSettingAbsent ==
    run.program = "corpus" /\ (run.project = None \/ run.location = None)

Unresolvable(pair) == ~PyTruthy(pair[1]) /\ ~PyTruthy(pair[2])

\* The deployment CLI has (so far) resolved project, location or staging
\* bucket neither from its flag nor from the environment.
DeploySettingUnresolvable ==
    /\ run.program = "deploy"
    /\ \/ Unresolvable(run.cfg.project)
       \/ Unresolvable(run.cfg.location)
       \/ Unresolvable(run.cfg.bucket)

\* C10: missing required configuration is fatal before any external call:
\* the corpus utility without GOOGLE_CLOUD_PROJECT or GOOGLE_CLOUD_LOCATION
\* ends with an error, and the deployment CLI with project, location or
\* staging bucket resolvable from neither flag nor environment ends with
\* status 1; neither has called an external service (Vertex AI
\* initialisation, RAG service, control plane) or changed the .env file.
C10_MissingConfigFatal ==
    /\ CorpusSettingAbsent =>
           /\ pc = "done"
           /\ run.exit # 0
           /\ calls = <<>>
           /\ envFile = run.env0
    /\ DeploySettingUnresolvable =>
           /\ pc \in {"d_main", "done"}
           /\ pc = "done" => run.exit = 1
           /\ calls = <<>>
           /\ envFile = run.env0

\* Witness of C10: a deployment run with project and location resolved and
\* no staging bucket has ended.
C10_Witness ==
    /\ DeployDone
    /\ run.flags = {"create"}
    /\ ~Unresolvable(run.cfg.project)
    /\ ~Unresolvable(run.cfg.location)
    /\ Unresolvable(run.cfg.bucket)

-----------------------------------------------------------------------------
(* The corpus utility publishes the corpus and processes the documents.    *)

\* The run is past update_env_file: at a download or upload, at the final
\* listing, or finished after them.
PastEnvUpdate == run.program = "corpus" /\ run.i >= 1

NoFailedWrite == \A k \in DOMAIN run.writes : run.writes[k].ok

\* C11: from the first document download on (so also when the run has
\* finished), the .env file maps RAG_CORPUS to the resource name of the
\* corpus create_or_get_corpus returned, whatever the .env file and the
\* process environment held before.  Stated here for the runs in which no
\* write to the file failed.
C11_Published ==
    (PastEnvUpdate /\ NoFailedWrite) => envFile["RAG_CORPUS"] = run.corpus

\* The positions in the call log of the calls of one kind made for a document.
CallsFor(op, filename) ==
    {k \in DOMAIN calls : calls[k].op = op /\ calls[k].arg = filename}

DocIndex(filename) ==
    CHOOSE d \in DOMAIN EXAMPLE_DOCUMENTS : EXAMPLE_DOCUMENTS[d].filename = filename

Downloads == {k \in DOMAIN calls : calls[k].op = "requests.get"}

\* The documents have been gone through: the run is at the final listing or
\* has finished after it.
LoopLeft == PastEnvUpdate /\ pc \in {"c_list", "done"}

-----------------------------------------------------------------------------
(* Frame conditions of the deployment CLI.                                 *)

HandlerPcs == {"d_list", "d_create", "d_delete", "d_update"}

\* C13: a run of the deployment CLI with none of --list, --create, --delete,
\* --update set makes no control-plane call (no create, update, get, delete
\* or list), enters no action handler and leaves the .env file as it was
\* when the run started.
C13_NoActionNoOp ==
    (run.program = "deploy" /\ run.flags = {}) =>
        /\ Ops(calls) \cap ControlPlaneOps = {}
        /\ envFile = run.env0
        /\ run.handler = None
        /\ pc \notin HandlerPcs

\* A finished run without action flags that passed configuration and
\* initialisation, over a .env file that names a deployment.
C13_Witness ==
    /\ DeployDone
    /\ run.flags = {}
    /\ Ops(calls) = {"vertexai.init"}
    /\ run.exit = 0
    /\ envFile["AGENT_ENGINE_ID"] \in engines.live

-----------------------------------------------------------------------------
(* The capability list of an agent process.                                *)

\* The list agent.py builds from the values read at process start.
ExpectedTools(rag, model) ==
    IF rag \in {None, Empty}
    THEN << [name |-> "GoogleSearch", target |-> model] >>
    ELSE << [name |-> "retrieve_crisis_information", target |-> rag],
            [name |-> "GoogleSearch", target |-> model] >>

\* Every step either leaves the agent process as it is or is a process start
\* that changes nothing else; a start reads RAG_CORPUS from the process
\* environment or else from the .env file as it is at that moment, and builds
\* the list those values determine; two starts that read the same values
\* build the same list.
C14_Step ==
    /\ root_agent' # root_agent =>
         /\ <<pc, run, calls, envFile, corpora, files>>' =
                <<pc, run, calls, envFile, corpora, files>>
         /\ root_agent'.started
         /\ \E p \in ProcRagValues, m \in ProcModelValues :
              /\ root_agent'.RAG_CORPUS = load_dotenv(p, envFile["RAG_CORPUS"], FALSE)
              /\ root_agent'.model = MODEL_NAME(m)
         /\ root_agent'.tools =
                ExpectedTools(root_agent'.RAG_CORPUS, root_agent'.model)
    /\ ( /\ root_agent.started
         /\ root_agent'.started
         /\ root_agent'.RAG_CORPUS = root_agent.RAG_CORPUS
         /\ root_agent'.model = root_agent.model )
       => root_agent'.tools = root_agent.tools

\* C14: the tool list of an agent process is a function of the environment
\* read at its start and does not change afterwards: no step of the corpus
\* utility, its write of RAG_CORPUS to the .env file included, changes the
\* list of a running agent process; only a later start reads the new value.
C14_FixedAtStart == [][C14_Step]_vars

\* An agent process that started while RAG_CORPUS was unset still has the one
\* tool after a corpus-utility run has written RAG_CORPUS to the .env file.
C14_Witness ==
    /\ root_agent.started
    /\ root_agent.RAG_CORPUS = None
    /\ ToolNames(root_agent.tools) = <<"GoogleSearch">>
    /\ run.program = "corpus"
    /\ run.writes # << >>
    /\ envFile["RAG_CORPUS"] = run.corpus
    /\ run.corpus # None

ModifyingHandlers == {"create_agent", "delete_agent", "update_agent"}

\* C15: when the control-plane call of a --create, --update or --delete run
\* fails, the run leaves the .env file as it was when the run started:
\* AGENT_ENGINE_ID and AGENT_DISPLAY_NAME keep their values or their absence.
C15_FailureKeepsEnv ==
    (run.program = "deploy" /\ run.handler \in ModifyingHandlers
        /\ ControlPlaneFailed)
    => /\ envFile = run.env0
       /\ run.writes = << >>

\* A finished --delete run on the deployment the .env file names, whose
\* lookup succeeded and whose delete call failed.
C15_Witness ==
    /\ DeployDone
    /\ run.handler = "delete_agent"
    /\ \E k \in DOMAIN calls : calls[k].op = "remote_agent.delete" /\ ~calls[k].ok
    /\ run.agent_id = envFile["AGENT_ENGINE_ID"]
    /\ envFile["AGENT_DISPLAY_NAME"] # None
    /\ run.exit = 1

\* C16 as stated: whatever runs of the CLI have happened, failed .env writes
\* included, the AGENT_ENGINE_ID stored in the .env file never names a
\* deployment a run of this CLI has deleted.
C16_AsStated == envFile["AGENT_ENGINE_ID"] \notin engines.deleted

\* The step is a --delete run's handler whose removal of AGENT_ENGINE_ID from
\* the .env file failed.
FailedUnset ==
    /\ pc = "d_delete"
    /\ run'.handler = "delete_agent"
    /\ run'.writes # << >>
    /\ ~run'.writes[1].ok

\* C16 (amended): the stored AGENT_ENGINE_ID comes to name a deleted
\* deployment only through a --delete run that deleted the deployment and
\* whose removal of AGENT_ENGINE_ID from the .env file failed; every other
\* step (create, update, list, delete, with or without failures) keeps the
\* stored identifier from naming a deleted deployment.
C16_StaleOnlyByFailedUnset ==
    [][ (C16_AsStated /\ ~FailedUnset) => C16_AsStated' ]_vars

\* A --create run after a successful --delete: the .env file names the new,
\* live deployment while an earlier one is deleted.
C16_Witness ==
    /\ DeployDone
    /\ run.handler = "create_agent"
    /\ engines.deleted # {}
    /\ envFile["AGENT_ENGINE_ID"] \in engines.live
    /\ run.env0["AGENT_ENGINE_ID"] = None

====
